---- MODULE Spec2Model ----
(***************************************************************************)
(* The live autofill session orchestrator of backend/src/index.ts: the     *)
(* in-memory session list and event log (data.ts), the livePages registry  *)
(* of browser handles, the lifecycle handlers create / go / analyze /      *)
(* autofill / mark-submitted, startBrowserSession / stopBrowserSession,    *)
(* and the /ws/browser/:sessionId frame channel.                           *)
(*                                                                         *)
(* Handlers are async functions on one event loop: a handler runs without  *)
(* interruption up to an await on browser I/O, and other handlers run      *)
(* while it is suspended.  Every await on the browser (chromium.launch,    *)
(* newPage/goto/focus, page.close, browser.close) is a separate step here. *)
(* The awaits on the database in create / analyze / autofill read a store  *)
(* that no modelled handler writes, and the handler writes nothing before  *)
(* them, so those handlers are single steps.                               *)
(***************************************************************************)
EXTENDS Integers, Sequences, FiniteSets, Bags, TLC

VARIABLES
    sessions,    \* data.ts `sessions`: most-recent-first list of ApplicationSession
    events,      \* data.ts `events`: the event log
    livePages,   \* index.ts `livePages`: session id -> {browser, page, interval?}
    browsers,    \* every browser process launched so far, indexed by launch order
    viewers,     \* every /ws/browser connection accepted so far, by connection order
    inflight,    \* bag of suspended go / mark-submitted handlers
    reply,       \* what the server sent in the step just taken (an HTTP response or a
                 \* socket message), NoReply when nothing
    served,      \* history: ids whose go replied with a provisioned handle, no mark-submitted since
    profiles,    \* the profiles table (with its resumes), read-only here
    budget       \* the number of lifecycle requests this run accepts, fixed at Init

vars == <<sessions, events, livePages, browsers, viewers, inflight, reply, served, profiles, budget>>

\* ---------------------------------------------------------------- bounds
MaxRequests == 3   \* lifecycle requests accepted in a run
MaxViewers == 2    \* viewer connections opened in a run

\* ---------------------------------------------------------------- constants
HttpOk == 200
HttpForbidden == 403
HttpNotFound == 404

Undefined == "undefined"
NoTimer == 0       \* the handle's optional interval, when absent
NotEnded == 0      \* the session's optional endedAt, when absent

Bidders == {"b1", "b2"}
ProfileIds == {"p1", "p2", "p3"}
\* The create requests issued: an unassigned profile, a profile assigned to
\* another bidder, a profile assigned to the requester, a profile not stored.
CreateInputs == {<<"b1", "p1">>, <<"b1", "p2">>, <<"b2", "p2">>, <<"b1", "p3">>}
Urls == {"https://example.com/apply"}
BlankUrl == "about:blank"
ErrorUrl == "chrome-error://chromewebdata/"

StatusOrder == <<"OPEN", "ANALYZED", "FILLED", "SUBMITTED">>

\* ---------------------------------------------------------------- the store
\* BaseInfo values: a missing key, the empty string, or a non-empty string.
\* A missing baseInfo, name or contact object reads like one whose keys are
\* all missing (baseInfo?.name?.first), and is written that way here.
FieldValues == {Undefined, "", "x"}
BaseInfos == [name : [first : FieldValues, last : FieldValues],
              contact : [email : FieldValues, phone : FieldValues]]

\* The profiles table the lifecycle runs against: p1 unassigned, p2 assigned
\* to bidder b2, p3 not stored.  The resumes rows of p1 carry distinct
\* created_at values, in no particular order of id.
SeedProfiles ==
    [p \in {"p1", "p2"} |->
        IF p = "p1"
        THEN [assignedBidderId |-> Undefined,
              baseInfo |-> [name |-> [first |-> "x", last |-> Undefined],
                            contact |-> [email |-> "x", phone |-> Undefined]],
              resumes |-> {[id |-> "r1", createdAt |-> 2],
                           [id |-> "r2", createdAt |-> 3],
                           [id |-> "r3", createdAt |-> 1]}]
        ELSE [assignedBidderId |-> "b2",
              baseInfo |-> [name |-> [first |-> "", last |-> "x"],
                            contact |-> [email |-> "", phone |-> "x"]],
              resumes |-> {}]]

\* The queries return their rows; the callers take rows[0].
findProfileById(id) ==
    IF id \in DOMAIN profiles THEN <<profiles[id]>> ELSE <<>>

findActiveAssignmentByProfile(profileId) ==
    IF profileId \in DOMAIN profiles /\ profiles[profileId].assignedBidderId # Undefined
    THEN <<[profileId |-> profileId, bidderUserId |-> profiles[profileId].assignedBidderId]>>
    ELSE <<>>

\* Mutant: the rows come back oldest first.
RECURSIVE OrderByCreatedAtAsc(_)
OrderByCreatedAtAsc(rows) ==
    IF rows = {} THEN <<>>
    ELSE LET oldest == CHOOSE r \in rows : \A o \in rows : o.createdAt >= r.createdAt
         IN <<oldest>> \o OrderByCreatedAtAsc(rows \ {oldest})

\* ORDER BY created_at DESC over a set of rows.
RECURSIVE OrderByCreatedAtDesc(_)
OrderByCreatedAtDesc(rows) ==
    IF rows = {} THEN <<>>
    ELSE LET newest == CHOOSE r \in rows : \A o \in rows : o.createdAt <= r.createdAt
         IN <<newest>> \o OrderByCreatedAtDesc(rows \ {newest})

\* SELECT ... FROM resumes WHERE profile_id = $1 ORDER BY created_at DESC
listResumesByProfile(profileId) ==
    IF profileId \in DOMAIN profiles
    THEN OrderByCreatedAtDesc(profiles[profileId].resumes)
    ELSE <<>>

\* ---------------------------------------------------------------- helpers
\* JavaScript truthiness of a BaseInfo string value.
Truthy(v) == v # Undefined /\ v # ""

\* baseInfo?.name?.first and friends.
NameOf(baseInfo, key) == baseInfo.name[key]

ContactOf(baseInfo, key) == baseInfo.contact[key]

safeFields(baseInfo) ==
    << [field |-> "first_name", value |-> NameOf(baseInfo, "first"), confidence |-> 98],
       [field |-> "last_name", value |-> NameOf(baseInfo, "last"), confidence |-> 98],
       [field |-> "email", value |-> ContactOf(baseInfo, "email"), confidence |-> 97],
       [field |-> "phone", value |-> ContactOf(baseInfo, "phone"), confidence |-> 80] >>

\* Mutant: only missing values are dropped, empty strings are kept.
KeepDefined(f) == f.value # Undefined

\* safeFields.filter((f) => f.value)
KeepTruthy(f) == Truthy(f.value)

\* session.fillPlan before autofill ran.
NoFillPlan == [filled |-> <<>>, suggestions |-> <<>>, blocked |-> <<>>]

buildDemoFillPlan(baseInfo) ==
    [filled |-> SelectSeq(safeFields(baseInfo), KeepTruthy),
     suggestions |-> <<"cover_letter">>,
     blocked |-> <<"EEO", "veteran_status", "disability">>]

\* sessions.find((s) => s.id === id): the index of the session, 0 when none.
FindSession(id) ==
    IF \E i \in 1..Len(sessions) : sessions[i].id = id
    THEN CHOOSE i \in 1..Len(sessions) : sessions[i].id = id
    ELSE 0

SessionIds == {sessions[i].id : i \in 1..Len(sessions)}

\* livePages.get / has / set / delete; the Map is the set of its entries,
\* one per key.
LiveHas(id) == \E e \in livePages : e.key = id

LiveGet(id) == CHOOSE e \in livePages : e.key = id

LiveDelete(id) == {e \in livePages : e.key # id}

LiveSet(id, browser, page, interval) ==
    LiveDelete(id) \cup {[key |-> id, browser |-> browser, page |-> page, interval |-> interval]}

\* Requests accepted so far: each has pushed its event or is suspended.
Started == Len(events) + BagCardinality(inflight)

CanStart == Started < budget

\* new Date(): the clock advances with every request the server accepts.
Now == Started + 1

InFlightSet == BagToSet(inflight)

Suspend(q) == inflight (+) SetToBag({q})

Resume(q) == inflight (-) SetToBag({q})

NoReply == [op |-> "none", id |-> 0, code |-> 0, body |-> "", log |-> ""]

Respond(op, id, code, body, log) ==
    [op |-> op, id |-> id, code |-> code, body |-> body, log |-> log]

Event(sessionId, eventType) == [sessionId |-> sessionId, eventType |-> eventType]

\* ---------------------------------------------------------------- Init
Init ==
    /\ sessions = <<>>
    /\ events = <<>>
    /\ livePages = {}
    /\ browsers = <<>>
    /\ viewers = <<>>
    /\ inflight = EmptyBag
    /\ reply = NoReply
    /\ served = {}
    /\ profiles = SeedProfiles
    /\ budget = MaxRequests

\* ---------------------------------------------------------------- POST /sessions
CreateRejected(bidderUserId, profileId, url) ==
    /\ CanStart
    /\ LET rows == findActiveAssignmentByProfile(profileId)
       IN /\ Len(rows) > 0
          /\ rows[1].bidderUserId # bidderUserId
    /\ reply' = Respond("create", 0, HttpForbidden, "Profile not assigned to bidder", "")
    /\ UNCHANGED <<sessions, events, livePages, browsers, viewers, inflight, served, profiles, budget>>

\* Mutant: the session is born ANALYZED.
NewSessionAnalyzed(id, bidderUserId, profileId, url) ==
    [id |-> id, bidderUserId |-> bidderUserId, profileId |-> profileId, url |-> url,
     status |-> "ANALYZED", recommendedResumeId |-> Undefined, jobContext |-> Undefined,
     fillPlan |-> NoFillPlan, endedAt |-> NotEnded]

NewSession(id, bidderUserId, profileId, url) ==
    [id |-> id, bidderUserId |-> bidderUserId, profileId |-> profileId, url |-> url,
     status |-> "OPEN", recommendedResumeId |-> Undefined, jobContext |-> Undefined,
     fillPlan |-> NoFillPlan, endedAt |-> NotEnded]

\* Mutant: the session is put at the end of the list (push for unshift).
CreateAcceptedAtEnd(bidderUserId, profileId, url) ==
    /\ CanStart
    /\ LET rows == findActiveAssignmentByProfile(profileId)
       IN ~(Len(rows) > 0 /\ rows[1].bidderUserId # bidderUserId)
    /\ LET id == Len(sessions) + 1
       IN /\ sessions' = Append(sessions, NewSession(id, bidderUserId, profileId, url))
          /\ events' = Append(events, Event(id, "SESSION_CREATED"))
          /\ reply' = Respond("create", id, HttpOk, "session", "")
    /\ UNCHANGED <<livePages, browsers, viewers, inflight, served, profiles, budget>>

\* Mutant: the event is put at the head of the log (unshift for push).
CreateAcceptedUnshift(bidderUserId, profileId, url) ==
    /\ CanStart
    /\ LET rows == findActiveAssignmentByProfile(profileId)
       IN ~(Len(rows) > 0 /\ rows[1].bidderUserId # bidderUserId)
    /\ LET id == Len(sessions) + 1
       IN /\ sessions' = <<NewSession(id, bidderUserId, profileId, url)>> \o sessions
          /\ events' = <<Event(id, "SESSION_CREATED")>> \o events
          /\ reply' = Respond("create", id, HttpOk, "session", "")
    /\ UNCHANGED <<livePages, browsers, viewers, inflight, served, profiles, budget>>

CreateAccepted(bidderUserId, profileId, url) ==
    /\ CanStart
    /\ LET rows == findActiveAssignmentByProfile(profileId)
       IN ~(Len(rows) > 0 /\ rows[1].bidderUserId # bidderUserId)
    /\ LET id == Len(sessions) + 1
       IN /\ sessions' = <<NewSession(id, bidderUserId, profileId, url)>> \o sessions
          /\ events' = Append(events, Event(id, "SESSION_CREATED"))
          /\ reply' = Respond("create", id, HttpOk, "session", "")
    /\ UNCHANGED <<livePages, browsers, viewers, inflight, served, profiles, budget>>

\* ---------------------------------------------------------------- browser layer
\* A browser process and the one page opened in it.  page is "none" until
\* newPage resolved, then "open", then "closed".
Launched(sid) == [sid |-> sid, open |-> TRUE, page |-> "none", url |-> BlankUrl]

PageUsable(b) == browsers[b].open /\ browsers[b].page = "open"

\* mark-submitted handlers started so far for a session.
MsEvents(sid) == Len(SelectSeq(events, LAMBDA e : e = Event(sid, "SUBMITTED")))

MsInFlight(sid) == {q \in InFlightSet : q.op = "ms" /\ q.sid = sid}

MsStarted(sid) ==
    MsEvents(sid) + BagCardinality([q \in MsInFlight(sid) |-> inflight[q]])

\* ---------------------------------------------------------------- POST /sessions/:id/go
GoNotFound(id) ==
    /\ CanStart
    /\ FindSession(id) = 0
    /\ reply' = Respond("go", id, HttpNotFound, "Session not found", "")
    /\ UNCHANGED <<sessions, events, livePages, browsers, viewers, inflight, served, profiles, budget>>

\* The handler up to the first await of startBrowserSession: the status is
\* written, then either existing.page.goto or chromium.launch is awaited.
GoRequest(id, pc, b) ==
    [op |-> "go", sid |-> id, pc |-> pc, b |-> b,
     epoch |-> IF MsInFlight(id) = {} THEN MsStarted(id) ELSE 0 - 1]

GoStatus == "OPEN"

\* Mutant: the lookup never finds the handle, so every go launches.
ExistingNever(id) == FALSE

\* const existing = livePages.get(session.id); if (existing)
Existing(id) == LiveHas(id)

GoStart(id) ==
    /\ CanStart
    /\ FindSession(id) # 0
    /\ sessions' = [sessions EXCEPT ![FindSession(id)].status = GoStatus]
    /\ inflight' = IF Existing(id)
                   THEN Suspend(GoRequest(id, "goto_existing", LiveGet(id).page))
                   ELSE Suspend(GoRequest(id, "launch", 0))
    /\ reply' = NoReply
    /\ UNCHANGED <<events, livePages, browsers, viewers, served, profiles, budget>>

\* Mutant: no try/catch around startBrowserSession, its rejection reaches
\* the caller as a server error and nothing is pushed.
GoFinishRethrows(q, log) ==
    /\ inflight' = Resume(q)
    /\ events' = IF log = "" THEN Append(events, Event(q.sid, "GO_CLICKED")) ELSE events
    /\ reply' = IF log = "" THEN Respond("go", q.sid, HttpOk, "ok", log)
                ELSE Respond("go", q.sid, 500, "Internal Server Error", log)
    /\ served' = IF log = "" /\ q.epoch = MsStarted(q.sid)
                 THEN served \cup {q.sid} ELSE served

\* The tail of the handler after startBrowserSession returned or threw.
GoFinish(q, log) ==
    /\ inflight' = Resume(q)
    /\ events' = Append(events, Event(q.sid, "GO_CLICKED"))
    /\ reply' = Respond("go", q.sid, HttpOk, "ok", log)
    /\ served' = IF log = "" /\ q.epoch = MsStarted(q.sid)
                 THEN served \cup {q.sid} ELSE served

\* existing.page.goto resolves, focusFirstField swallows its own errors.
GoExistingNavigated(q) ==
    /\ q \in InFlightSet /\ q.op = "go" /\ q.pc = "goto_existing"
    /\ PageUsable(q.b)
    /\ browsers' = [browsers EXCEPT ![q.b].url = sessions[FindSession(q.sid)].url]
    /\ GoFinish(q, "")
    /\ UNCHANGED <<sessions, livePages, viewers, profiles, budget>>

\* existing.page.goto rejects (closed page, network error, timeout).
GoExistingFailed(q) ==
    /\ q \in InFlightSet /\ q.op = "go" /\ q.pc = "goto_existing"
    /\ \E u \in {browsers[q.b].url, ErrorUrl} :
          browsers' = [browsers EXCEPT ![q.b].url = IF PageUsable(q.b) THEN u ELSE @]
    /\ GoFinish(q, "failed to start browser session")
    /\ UNCHANGED <<sessions, livePages, viewers, profiles, budget>>

\* chromium.launch resolves: a new browser process runs.
GoLaunched(q) ==
    /\ q \in InFlightSet /\ q.op = "go" /\ q.pc = "launch"
    /\ browsers' = Append(browsers, Launched(q.sid))
    /\ inflight' = Suspend([q EXCEPT !.pc = "navigate", !.b = Len(browsers) + 1]) (-) SetToBag({q})
    /\ reply' = NoReply
    /\ UNCHANGED <<sessions, events, livePages, viewers, served, profiles, budget>>

\* chromium.launch rejects.
GoLaunchFailed(q) ==
    /\ q \in InFlightSet /\ q.op = "go" /\ q.pc = "launch"
    /\ GoFinish(q, "failed to start browser session")
    /\ UNCHANGED <<sessions, livePages, browsers, viewers, profiles, budget>>

\* Mutant: the handle is never put in the registry.
RegisterForgotten(q) == livePages

\* newPage, goto and focusFirstField resolve; the handle is registered.
Register(q) == LiveSet(q.sid, q.b, q.b, NoTimer)

GoNavigated(q) ==
    /\ q \in InFlightSet /\ q.op = "go" /\ q.pc = "navigate"
    /\ browsers' = [browsers EXCEPT ![q.b].page = "open",
                                    ![q.b].url = sessions[FindSession(q.sid)].url]
    /\ livePages' = Register(q)
    /\ GoFinish(q, "")
    /\ UNCHANGED <<sessions, viewers, profiles, budget>>

\* browser.newPage or page.goto rejects: nothing is registered and nothing
\* closes the browser just launched.
GoNavigateFailed(q) ==
    /\ q \in InFlightSet /\ q.op = "go" /\ q.pc = "navigate"
    /\ \E pg \in {"none", "open"} :
          browsers' = [browsers EXCEPT ![q.b].page = pg,
                                      ![q.b].url = IF pg = "open" THEN ErrorUrl ELSE @]
    /\ GoFinish(q, "failed to start browser session")
    /\ UNCHANGED <<sessions, livePages, viewers, profiles, budget>>

\* ---------------------------------------------------------------- POST /sessions/:id/analyze
AnalyzeNotFound(id) ==
    /\ CanStart
    /\ FindSession(id) = 0
    /\ reply' = Respond("analyze", id, HttpNotFound, "Session not found", "")
    /\ UNCHANGED <<sessions, events, livePages, browsers, viewers, inflight, served, profiles, budget>>

Recommended(profileResumesList) ==
    IF Len(profileResumesList) > 0 THEN profileResumesList[1].id ELSE Undefined

Analyze(id) ==
    /\ CanStart
    /\ FindSession(id) # 0
    /\ LET i == FindSession(id)
           recommended == Recommended(listResumesByProfile(sessions[i].profileId))
       IN /\ sessions' = [sessions EXCEPT ![i].recommendedResumeId = recommended,
                                          ![i].status = "ANALYZED",
                                          ![i].jobContext = "Sample Job"]
          /\ reply' = Respond("analyze", id, HttpOk, recommended, "")
    /\ events' = Append(events, Event(id, "ANALYZE_DONE"))
    /\ UNCHANGED <<livePages, browsers, viewers, inflight, served, profiles, budget>>

\* ---------------------------------------------------------------- POST /sessions/:id/autofill
AutofillNotFound(id) ==
    /\ CanStart
    /\ FindSession(id) = 0
    /\ reply' = Respond("autofill", id, HttpNotFound, "Session not found", "")
    /\ UNCHANGED <<sessions, events, livePages, browsers, viewers, inflight, served, profiles, budget>>

\* Mutant: the status is written before the profile is looked up.
AutofillNoProfileAfterWrite(id) ==
    /\ CanStart
    /\ FindSession(id) # 0
    /\ findProfileById(sessions[FindSession(id)].profileId) = <<>>
    /\ sessions' = [sessions EXCEPT ![FindSession(id)].status = "FILLED"]
    /\ reply' = Respond("autofill", id, HttpNotFound, "Profile not found", "")
    /\ UNCHANGED <<events, livePages, browsers, viewers, inflight, served, profiles, budget>>

AutofillNoProfile(id) ==
    /\ CanStart
    /\ FindSession(id) # 0
    /\ findProfileById(sessions[FindSession(id)].profileId) = <<>>
    /\ reply' = Respond("autofill", id, HttpNotFound, "Profile not found", "")
    /\ UNCHANGED <<sessions, events, livePages, browsers, viewers, inflight, served, profiles, budget>>

Autofill(id) ==
    /\ CanStart
    /\ FindSession(id) # 0
    /\ LET i == FindSession(id)
           rows == findProfileById(sessions[i].profileId)
       IN /\ rows # <<>>
          /\ sessions' = [sessions EXCEPT ![i].status = "FILLED",
                                          ![i].fillPlan = buildDemoFillPlan(rows[1].baseInfo)]
    /\ events' = Append(events, Event(id, "AUTOFILL_DONE"))
    /\ reply' = Respond("autofill", id, HttpOk, "fillPlan", "")
    /\ UNCHANGED <<livePages, browsers, viewers, inflight, served, profiles, budget>>

\* ---------------------------------------------------------------- POST /sessions/:id/mark-submitted
MsNotFound(id) ==
    /\ CanStart
    /\ FindSession(id) = 0
    /\ reply' = Respond("ms", id, HttpNotFound, "Session not found", "")
    /\ UNCHANGED <<sessions, events, livePages, browsers, viewers, inflight, served, profiles, budget>>

Submitted(i) == [sessions EXCEPT ![i].status = "SUBMITTED", ![i].endedAt = Now]

\* if (live.interval) clearInterval(live.interval)
ClearInterval(interval) ==
    IF interval \in DOMAIN viewers THEN [viewers EXCEPT ![interval].timer = FALSE] ELSE viewers

\* Mutant: the handler answers without pushing its event.
MsNoHandleSilent(id) ==
    /\ CanStart
    /\ FindSession(id) # 0
    /\ ~LiveHas(id)
    /\ sessions' = Submitted(FindSession(id))
    /\ reply' = Respond("ms", id, HttpOk, "SUBMITTED", "")
    /\ served' = served \ {id}
    /\ UNCHANGED <<events, livePages, browsers, viewers, inflight, profiles, budget>>

\* stopBrowserSession finds no handle and returns: the handler ends in the
\* same turn of the event loop.
MsNoHandle(id) ==
    /\ CanStart
    /\ FindSession(id) # 0
    /\ ~LiveHas(id)
    /\ sessions' = Submitted(FindSession(id))
    /\ events' = Append(events, Event(id, "SUBMITTED"))
    /\ reply' = Respond("ms", id, HttpOk, "SUBMITTED", "")
    /\ served' = served \ {id}
    /\ UNCHANGED <<livePages, browsers, viewers, inflight, profiles, budget>>

\* stopBrowserSession up to its first await: the registry's timer is
\* cleared and live.page.close() is awaited.
MsStart(id) ==
    /\ CanStart
    /\ FindSession(id) # 0
    /\ LiveHas(id)
    /\ sessions' = Submitted(FindSession(id))
    /\ LET live == LiveGet(id)
       IN /\ viewers' = ClearInterval(live.interval)
          /\ inflight' = Suspend([op |-> "ms", sid |-> id, pc |-> "page_close",
                                  b |-> live.browser, epoch |-> 0])
    /\ served' = served \ {id}
    /\ reply' = NoReply
    /\ UNCHANGED <<events, livePages, browsers, profiles, budget>>

\* live.page.close() settles; a rejection is swallowed; live.browser.close()
\* is awaited next.
MsPageClosed(q) ==
    /\ q \in InFlightSet /\ q.op = "ms" /\ q.pc = "page_close"
    /\ \E closed \in BOOLEAN :
          browsers' = [browsers EXCEPT ![q.b].page = IF closed \/ @ = "closed" THEN "closed" ELSE @]
    /\ inflight' = Suspend([q EXCEPT !.pc = "browser_close"]) (-) SetToBag({q})
    /\ reply' = NoReply
    /\ UNCHANGED <<sessions, events, livePages, viewers, served, profiles, budget>>

\* live.browser.close() settles; a rejection is swallowed; the entry is
\* deleted, the event pushed and the current status returned.
Unregister(id) == LiveDelete(id)

MsBrowserClosed(q) ==
    /\ q \in InFlightSet /\ q.op = "ms" /\ q.pc = "browser_close"
    /\ \E closed \in BOOLEAN :
          browsers' = [browsers EXCEPT ![q.b].open = IF closed THEN FALSE ELSE @,
                                      ![q.b].page = IF closed /\ @ = "open" THEN "closed" ELSE @]
    /\ livePages' = Unregister(q.sid)
    /\ inflight' = Resume(q)
    /\ events' = Append(events, Event(q.sid, "SUBMITTED"))
    /\ reply' = Respond("ms", q.sid, HttpOk, sessions[FindSession(q.sid)].status, "")
    /\ UNCHANGED <<sessions, viewers, served, profiles, budget>>

\* ---------------------------------------------------------------- GET /ws/browser/:sessionId
\* The connection handler's output: the message it sent on the socket of the
\* connection asking for sessionId ("" when none), and the socket's state.
WsConnect(sessionId, message, socket) ==
    [op |-> "ws_connect", id |-> sessionId, code |-> 0, body |-> message, log |-> socket]

\* A firing of connection v's interval: the message sent on its socket.
WsFrame(v, message) ==
    [op |-> "ws_frame", id |-> v, code |-> 0, body |-> message, log |-> ""]

\* Mutant: the error is sent but the socket is left open.
ViewerRejectedLeftOpen(sessionId) ==
    /\ ~LiveHas(sessionId)
    /\ reply' = WsConnect(sessionId, "error: No live browser", "open")
    /\ UNCHANGED <<sessions, events, livePages, browsers, viewers, inflight,
                   served, profiles, budget>>

\* No handle: one error message, socket.close(), return.  Nothing of the
\* connection outlives the handler.
ViewerRejected(sessionId) ==
    /\ ~LiveHas(sessionId)
    /\ reply' = WsConnect(sessionId, "error: No live browser", "closed")
    /\ UNCHANGED <<sessions, events, livePages, browsers, viewers, inflight,
                   served, profiles, budget>>

\* A connection that got past the lookup: the session id and the page its
\* closures captured, and whether its interval is still set.  The interval
\* is named by the connection's index.
Streaming(sessionId, page) ==
    [sid |-> sessionId, page |-> page, state |-> "streaming", timer |-> TRUE]

\* Mutant: the entry is rewritten with the browser launched last.
ViewerConnectLatestBrowser(sessionId) ==
    /\ Len(viewers) < MaxViewers
    /\ LiveHas(sessionId)
    /\ LET live == LiveGet(sessionId)
           interval == Len(viewers) + 1
       IN /\ viewers' = Append(viewers, Streaming(sessionId, live.page))
          /\ livePages' = LiveSet(sessionId, Len(browsers), Len(browsers), interval)
    /\ reply' = WsConnect(sessionId, "", "open")
    /\ UNCHANGED <<sessions, events, browsers, inflight, served, profiles, budget>>

ViewerConnect(sessionId) ==
    /\ Len(viewers) < MaxViewers
    /\ LiveHas(sessionId)
    /\ LET live == LiveGet(sessionId)
           interval == Len(viewers) + 1
       IN /\ viewers' = Append(viewers, Streaming(sessionId, live.page))
          /\ livePages' = LiveSet(sessionId, live.browser, live.page, interval)
    /\ reply' = WsConnect(sessionId, "", "open")
    /\ UNCHANGED <<sessions, events, browsers, inflight, served, profiles, budget>>

\* Mutant: the close handler forgets clearInterval.
ViewerCloseKeepsTimer(v) ==
    /\ v \in DOMAIN viewers
    /\ viewers[v].state = "streaming"
    /\ viewers' = [viewers EXCEPT ![v].state = "closed"]
    /\ livePages' = IF LiveHas(viewers[v].sid)
                    THEN LET current == LiveGet(viewers[v].sid)
                         IN LiveSet(viewers[v].sid, current.browser, current.page, NoTimer)
                    ELSE livePages
    /\ reply' = NoReply
    /\ UNCHANGED <<sessions, events, browsers, inflight, served, profiles, budget>>

\* Mutant: the close handler writes the entry back without looking it up.
ViewerCloseRestoresHandle(v) ==
    /\ v \in DOMAIN viewers
    /\ viewers[v].state = "streaming"
    /\ viewers' = [viewers EXCEPT ![v].timer = FALSE, ![v].state = "closed"]
    /\ livePages' = LiveSet(viewers[v].sid, viewers[v].page, viewers[v].page, NoTimer)
    /\ reply' = NoReply
    /\ UNCHANGED <<sessions, events, browsers, inflight, served, profiles, budget>>

\* Mutant: the close handler also drops the handle from the registry.
ViewerCloseDropsHandle(v) ==
    /\ v \in DOMAIN viewers
    /\ viewers[v].state = "streaming"
    /\ viewers' = [viewers EXCEPT ![v].timer = FALSE, ![v].state = "closed"]
    /\ livePages' = LiveDelete(viewers[v].sid)
    /\ reply' = NoReply
    /\ UNCHANGED <<sessions, events, browsers, inflight, served, profiles, budget>>

\* connection.socket.on('close')
ViewerClose(v) ==
    /\ v \in DOMAIN viewers
    /\ viewers[v].state = "streaming"
    /\ viewers' = [viewers EXCEPT ![v].timer = FALSE, ![v].state = "closed"]
    /\ livePages' = IF LiveHas(viewers[v].sid)
                    THEN LET current == LiveGet(viewers[v].sid)
                         IN LiveSet(viewers[v].sid, current.browser, current.page, NoTimer)
                    ELSE livePages
    /\ reply' = NoReply
    /\ UNCHANGED <<sessions, events, browsers, inflight, served, profiles, budget>>

\* One firing of setInterval(sendFrame, 1000): page.screenshot resolves and
\* the frame is sent.
FrameSent(v) ==
    /\ v \in DOMAIN viewers
    /\ viewers[v].timer
    /\ PageUsable(viewers[v].page)
    /\ reply' = WsFrame(v, "frame")
    /\ UNCHANGED <<sessions, events, livePages, browsers, viewers, inflight,
                   served, profiles, budget>>

\* Mutant: a failed capture clears the interval.
FrameFailedStopsTimer(v) ==
    /\ v \in DOMAIN viewers
    /\ viewers[v].timer
    /\ viewers' = [viewers EXCEPT ![v].timer = FALSE]
    /\ reply' = WsFrame(v, "error: Could not capture frame")
    /\ UNCHANGED <<sessions, events, livePages, browsers, inflight,
                   served, profiles, budget>>

\* page.screenshot rejects and the error message is sent.
FrameFailed(v) ==
    /\ v \in DOMAIN viewers
    /\ viewers[v].timer
    /\ reply' = WsFrame(v, "error: Could not capture frame")
    /\ UNCHANGED <<sessions, events, livePages, browsers, viewers, inflight,
                   served, profiles, budget>>

\* ---------------------------------------------------------------- specification
\* A request names any session id; 0 is the id of no session.
IdInputs == 0..Len(sessions)

Next ==
    \/ \E c \in CreateInputs, u \in Urls : CreateRejected(c[1], c[2], u)
    \/ \E c \in CreateInputs, u \in Urls : CreateAccepted(c[1], c[2], u)
    \/ \E id \in IdInputs : GoNotFound(id)
    \/ \E id \in IdInputs : GoStart(id)
    \/ \E q \in InFlightSet : GoExistingNavigated(q)
    \/ \E q \in InFlightSet : GoExistingFailed(q)
    \/ \E q \in InFlightSet : GoLaunched(q)
    \/ \E q \in InFlightSet : GoLaunchFailed(q)
    \/ \E q \in InFlightSet : GoNavigated(q)
    \/ \E q \in InFlightSet : GoNavigateFailed(q)
    \/ \E id \in IdInputs : AnalyzeNotFound(id)
    \/ \E id \in IdInputs : Analyze(id)
    \/ \E id \in IdInputs : AutofillNotFound(id)
    \/ \E id \in IdInputs : AutofillNoProfile(id)
    \/ \E id \in IdInputs : Autofill(id)
    \/ \E id \in IdInputs : MsNotFound(id)
    \/ \E id \in IdInputs : MsNoHandle(id)
    \/ \E id \in IdInputs : MsStart(id)
    \/ \E q \in InFlightSet : MsPageClosed(q)
    \/ \E q \in InFlightSet : MsBrowserClosed(q)
    \/ \E id \in IdInputs : ViewerRejected(id)
    \/ \E id \in IdInputs : ViewerConnect(id)
    \/ \E v \in DOMAIN viewers : ViewerClose(v)
    \/ \E v \in DOMAIN viewers : FrameSent(v)
    \/ \E v \in DOMAIN viewers : FrameFailed(v)

Spec == Init /\ [][Next]_vars

\* The same server over runs one request longer: the interleavings of a
\* mark-submitted with two other requests on a provisioned session.
InitWide ==
    /\ sessions = <<>>
    /\ events = <<>>
    /\ livePages = {}
    /\ browsers = <<>>
    /\ viewers = <<>>
    /\ inflight = EmptyBag
    /\ reply = NoReply
    /\ served = {}
    /\ profiles = SeedProfiles
    /\ budget = MaxRequests + 1

SpecWide == InitWide /\ [][Next]_vars

\* The fill plan over every stored base info: profile p1 holds any BaseInfo,
\* and sessions are created and autofilled.
InitFill ==
    /\ sessions = <<>>
    /\ events = <<>>
    /\ livePages = {}
    /\ browsers = <<>>
    /\ viewers = <<>>
    /\ inflight = EmptyBag
    /\ reply = NoReply
    /\ served = {}
    /\ \E baseInfo \in BaseInfos :
          profiles = [SeedProfiles EXCEPT !["p1"].baseInfo = baseInfo]
    /\ budget = MaxRequests

NextFill ==
    \/ \E c \in CreateInputs, u \in Urls : CreateRejected(c[1], c[2], u)
    \/ \E c \in CreateInputs, u \in Urls : CreateAccepted(c[1], c[2], u)
    \/ \E id \in IdInputs : AutofillNotFound(id)
    \/ \E id \in IdInputs : AutofillNoProfile(id)
    \/ \E id \in IdInputs : Autofill(id)

SpecFill == InitFill /\ [][NextFill]_vars
\* ================================================================ properties
Rank(status) == CHOOSE k \in 1..Len(StatusOrder) : StatusOrder[k] = status

SessionById(id) == sessions[FindSession(id)]

\* The go requests that finish in the step: the handler is resumed for the
\* last time and leaves the bag.
Finishing(q) == q \in InFlightSet /\ inflight' = Resume(q)

\* The requests that start in the step and suspend.
Starting(q) == inflight' = Suspend(q)

EventCount(sid, eventType) == Len(SelectSeq(events, LAMBDA e : e = Event(sid, eventType)))

\* ---------------------------------------------------------------- C1
\* C1: in every step, every session's status is equal to or later than it
\* was, in the order OPEN < ANALYZED < FILLED < SUBMITTED.
C1_StatusNeverMovesBack ==
    [][\A i \in 1..Len(sessions) : \A j \in 1..Len(sessions') :
          sessions'[j].id = sessions[i].id
              => Rank(sessions'[j].status) >= Rank(sessions[i].status)]_vars

\* ---------------------------------------------------------------- C2
\* C2: when mark-submitted answers for an existing session, the registry
\* holds no handle for the id, the status is SUBMITTED and endedAt is set.
C2_SubmittedOnCompletion ==
    (reply.op = "ms" /\ reply.code = HttpOk)
        => /\ ~LiveHas(reply.id)
           /\ SessionById(reply.id).status = "SUBMITTED"
           /\ SessionById(reply.id).endedAt # NotEnded

C4_OneBrowserPerSession ==
    \A i \in 1..Len(sessions) :
        Cardinality({b \in DOMAIN browsers :
                        browsers[b].sid = sessions[i].id /\ browsers[b].open}) <= 1

\* ---------------------------------------------------------------- C5
\* C5: a connection asking for a session id that has no handle is sent
\* exactly one error message and closed by the server; no interval is set
\* for it (so no frame is ever sent to it) and the registry is not written.
C5_NoHandleOneErrorThenClosed ==
    [][(reply'.op = "ws_connect" /\ ~LiveHas(reply'.id))
          => /\ reply'.body = "error: No live browser"
             /\ reply'.log = "closed"
             /\ viewers' = viewers
             /\ livePages' = livePages]_vars

\* A viewer was just turned away from an existing session that has no handle
\* while another session has one.
C5_Witness ==
    /\ reply.op = "ws_connect" /\ reply.log = "closed"
    /\ reply.id \in SessionIds
    /\ ~LiveHas(reply.id)
    /\ livePages # {}
\* ---------------------------------------------------------------- C6
BlockedFields == {"EEO", "veteran_status", "disability"}

\* The profile value a fill-plan field is taken from.
SourceValue(baseInfo, field) ==
    CASE field = "first_name" -> baseInfo.name.first
      [] field = "last_name" -> baseInfo.name.last
      [] field = "email" -> baseInfo.contact.email
      [] field = "phone" -> baseInfo.contact.phone

FilledFields(plan) == {plan.filled[k].field : k \in 1..Len(plan.filled)}

\* C6: for every base info, the filled list of an attached fill plan holds
\* no blocked field, holds first_name / last_name / email / phone exactly
\* when the profile's value for it is non-empty (once, with that value),
\* and the blocked list is exactly {EEO, veteran_status, disability}.
C6_FillPlanFromNonEmptyValues ==
    \A i \in 1..Len(sessions) :
        LET plan == sessions[i].fillPlan
            baseInfo == profiles[sessions[i].profileId].baseInfo
        IN plan # NoFillPlan
            => /\ FilledFields(plan) \cap BlockedFields = {}
               /\ \A f \in {"first_name", "last_name", "email", "phone"} :
                     (f \in FilledFields(plan))
                         <=> (SourceValue(baseInfo, f) \notin {Undefined, ""})
               /\ FilledFields(plan) \subseteq {"first_name", "last_name", "email", "phone"}
               /\ Len(plan.filled) = Cardinality(FilledFields(plan))
               /\ \A k \in 1..Len(plan.filled) :
                     plan.filled[k].value = SourceValue(baseInfo, plan.filled[k].field)
               /\ Len(plan.blocked) = 3
               /\ {plan.blocked[k] : k \in 1..Len(plan.blocked)} = BlockedFields

\* A plan computed from a base info with an empty first name, a missing
\* last name and a phone number: only the phone is filled.
C6_Witness ==
    \E i \in 1..Len(sessions) :
        /\ sessions[i].profileId = "p1"
        /\ profiles["p1"].baseInfo.name.first = ""
        /\ profiles["p1"].baseInfo.name.last = Undefined
        /\ profiles["p1"].baseInfo.contact.email = ""
        /\ FilledFields(sessions[i].fillPlan) = {"phone"}

\* ---------------------------------------------------------------- C7
\* C7: a create rejected because the profile's active assignment names
\* another bidder answers with the conflict outcome (409), which is not the
\* forbidden and not the not-found outcome.
C7_CreateRejectedWithConflict ==
    (reply.op = "create" /\ reply.code # HttpOk)
        => /\ reply.code = 409
           /\ reply.code \notin {HttpForbidden, HttpNotFound}

\* ---------------------------------------------------------------- C8
\* C8: a step that answers a lifecycle request with a rejection (403 for
\* create, 404 for go / analyze / autofill / mark-submitted) leaves the
\* session list, the event log, the registry, the browsers, the viewers'
\* timers and the suspended handlers as they were.
C8_RejectionChangesNothing ==
    [][(reply'.op \in {"create", "go", "analyze", "autofill", "ms"}
           /\ reply'.code \in {HttpForbidden, HttpNotFound})
          => UNCHANGED <<sessions, events, livePages, browsers, viewers, inflight>>]_vars

\* An autofill was just rejected for its missing profile on a session that
\* has a live browser.
C8_Witness ==
    /\ reply.op = "autofill" /\ reply.code = HttpNotFound
    /\ reply.body = "Profile not found"
    /\ LiveHas(reply.id)

\* ---------------------------------------------------------------- C9
\* C9: the step in which a go on an existing session ends answers 200 ok
\* for that session and appends exactly one GO_CLICKED event for it,
\* whatever the browser layer did; no other step answers a go on an existing
\* session or appends a GO_CLICKED event.
C9_GoAlwaysSucceeds ==
    [][/\ \A q \in InFlightSet :
             (q.op = "go" /\ Finishing(q))
                 => /\ reply' = Respond("go", q.sid, HttpOk, "ok", reply'.log)
                    /\ events' = Append(events, Event(q.sid, "GO_CLICKED"))
       /\ (reply'.op = "go" /\ FindSession(reply'.id) # 0)
             => /\ reply'.code = HttpOk
                /\ \E q \in InFlightSet : q.op = "go" /\ q.sid = reply'.id /\ Finishing(q)
       /\ (events' # events /\ events'[Len(events')].eventType = "GO_CLICKED")
             => \E q \in InFlightSet : q.op = "go" /\ Finishing(q)]_vars

\* A go was just answered 200 ok although its browser session failed to
\* start, and its event is the last of the log.
C9_Witness ==
    /\ reply.op = "go" /\ reply.code = HttpOk
    /\ reply.log = "failed to start browser session"
    /\ events[Len(events)] = Event(reply.id, "GO_CLICKED")

\* ---------------------------------------------------------------- C10
\* C10 as stated: when a go on an existing session has answered success and
\* no mark-submitted was ever started for the session, the registry holds a
\* handle for the session id.
C10_HandleAfterGo ==
    (reply.op = "go" /\ reply.code = HttpOk /\ MsStarted(reply.id) = 0)
        => LiveHas(reply.id)

\* C10 amended: once a go on an existing session has answered success with
\* no failure of its browser launch or navigation logged, and no
\* mark-submitted ran for the session since that go was called, the registry
\* holds a handle for the session id (a viewer connecting then streams).
C10_ProvisionedGoLeavesHandle ==
    \A sid \in served : LiveHas(sid)

\* A viewer streams from a session whose go answered with a handle.
C10_Witness ==
    \E v \in DOMAIN viewers :
        /\ viewers[v].state = "streaming"
        /\ viewers[v].sid \in served
        /\ LiveGet(viewers[v].sid).interval = v
\* ---------------------------------------------------------------- C11
\* C11: the step in which a go is called on an existing session leaves that
\* session's status as it was.
C11_GoKeepsStatus ==
    [][\A q \in BagToSet(inflight') :
          (q.op = "go" /\ q.pc \in {"launch", "goto_existing"} /\ Starting(q))
              => sessions'[FindSession(q.sid)].status = sessions[FindSession(q.sid)].status]_vars

\* ---------------------------------------------------------------- C12
\* The id of the most recently created resume of a stored profile, Undefined
\* when it has none or is not stored.
MostRecentResumeId(profileId) ==
    IF profileId \in DOMAIN profiles /\ profiles[profileId].resumes # {}
    THEN (CHOOSE r \in profiles[profileId].resumes :
             \A o \in profiles[profileId].resumes : o.createdAt <= r.createdAt).id
    ELSE Undefined

\* C12: the step in which analyze answers for an existing session leaves the
\* session with status ANALYZED, a job context, and recommendedResumeId equal
\* to the id of the most recently created resume of its profile (Undefined
\* when the profile has none), and answers with that id.
C12_AnalyzeRecommendsNewestResume ==
    [][(reply'.op = "analyze" /\ reply'.code = HttpOk)
          => LET after == sessions'[FindSession(reply'.id)]
             IN /\ after.status = "ANALYZED"
                /\ after.jobContext # Undefined
                /\ after.recommendedResumeId = MostRecentResumeId(after.profileId)
                /\ reply'.body = after.recommendedResumeId
                /\ Len(sessions') = Len(sessions)
                /\ \A i \in 1..Len(sessions) :
                      sessions[i].id # reply'.id => sessions'[i] = sessions[i]]_vars

\* Analyze has just answered r2, the newest of the three resumes of p1, for
\* a session of p1 that was FILLED before.
C12_Witness ==
    /\ reply.op = "analyze" /\ reply.code = HttpOk /\ reply.body = "r2"
    /\ SessionById(reply.id).profileId = "p1"
    /\ SessionById(reply.id).recommendedResumeId = "r2"
    /\ SessionById(reply.id).fillPlan # NoFillPlan
    /\ SessionById(reply.id).status = "ANALYZED"
\* ---------------------------------------------------------------- C13
\* C13: the step in which create answers success puts exactly one new
\* session, with a fresh id and status OPEN, at the head of the list, for a
\* profile with no active assignment or with one naming the requesting
\* bidder; it appends exactly one SESSION_CREATED event for it and leaves the
\* other sessions, the registry, the browsers, the viewers' timers and the
\* suspended handlers as they were.
C13_CreateAddsOneOpenSession ==
    [][(reply'.op = "create" /\ reply'.code = HttpOk)
          => /\ Len(sessions') = Len(sessions) + 1
             /\ Tail(sessions') = sessions
             /\ sessions'[1].id = reply'.id
             /\ sessions'[1].id \notin SessionIds
             /\ sessions'[1].status = "OPEN"
             /\ LET rows == findActiveAssignmentByProfile(sessions'[1].profileId)
                IN rows = <<>> \/ rows[1].bidderUserId = sessions'[1].bidderUserId
             /\ events' = Append(events, Event(reply'.id, "SESSION_CREATED"))
             /\ UNCHANGED <<livePages, browsers, viewers, inflight>>]_vars

\* Create has just answered for profile p2 and its assigned bidder b2 while
\* another session has a live browser and a streaming viewer.
C13_Witness ==
    /\ reply.op = "create" /\ reply.code = HttpOk
    /\ sessions[1].id = reply.id /\ sessions[1].status = "OPEN"
    /\ sessions[1].profileId = "p2" /\ sessions[1].bidderUserId = "b2"
    /\ livePages # {}
    /\ \E v \in DOMAIN viewers : viewers[v].timer

\* ---------------------------------------------------------------- C14
LifecycleOps == {"create", "go", "analyze", "autofill", "ms"}

EventTypeOf(op) ==
    CASE op = "create" -> "SESSION_CREATED"
      [] op = "go" -> "GO_CLICKED"
      [] op = "analyze" -> "ANALYZE_DONE"
      [] op = "autofill" -> "AUTOFILL_DONE"
      [] op = "ms" -> "SUBMITTED"

\* C14: a step answers a create, go, analyze, autofill or mark-submitted with
\* success exactly when it appends one event, and that event carries the
\* session id and the type matching the operation; every other step leaves
\* the log as it was.  So the events of a session are as many as its
\* successful answers.
C14_OneEventPerSuccess ==
    [][IF reply'.op \in LifecycleOps /\ reply'.code = HttpOk
       THEN events' = Append(events, Event(reply'.id, EventTypeOf(reply'.op)))
       ELSE events' = events]_vars

\* Session 1 was created, provisioned by a go and submitted through the
\* teardown: three answers, three events of its own.
C14_Witness ==
    /\ reply.op = "ms" /\ reply.code = HttpOk /\ reply.id = 1
    /\ events = <<Event(1, "SESSION_CREATED"), Event(1, "GO_CLICKED"), Event(1, "SUBMITTED")>>
    /\ \E b \in DOMAIN browsers : ~browsers[b].open

\* ---------------------------------------------------------------- C15
\* C15: in every step the event log before the step is a prefix of the log
\* after it.
C15_EventLogAppendOnly ==
    [][/\ Len(events') >= Len(events)
       /\ SubSeq(events', 1, Len(events)) = events]_vars

\* The log holds the events of two sessions in the order they were pushed.
C15_Witness ==
    /\ Len(events) = 3
    /\ events[1] = Event(1, "SESSION_CREATED")
    /\ events[2] = Event(2, "SESSION_CREATED")
    /\ events[3] = Event(1, "AUTOFILL_DONE")
\* ---------------------------------------------------------------- C16
\* C16: the step in which a streaming viewer's connection closes clears that
\* viewer's timer and nothing else of the browser layer: every registry
\* entry keeps its browser and page, no browser or page is closed, and the
\* other viewers are as they were.
C16_DisconnectKeepsBrowser ==
    [][\A v \in DOMAIN viewers :
          (viewers[v].state = "streaming" /\ viewers'[v].state = "closed")
              => /\ ~viewers'[v].timer
                 /\ browsers' = browsers
                 /\ \A e \in livePages : \E f \in livePages' :
                       f.key = e.key /\ f.browser = e.browser /\ f.page = e.page
                 /\ \A f \in livePages' : \E e \in livePages : e.key = f.key
                 /\ \A w \in DOMAIN viewers \ {v} : viewers'[w] = viewers[w]]_vars

\* A viewer has disconnected and the handle of its session is still in the
\* registry, with its browser running and its page open.
C16_Witness ==
    \E v \in DOMAIN viewers :
        /\ viewers[v].state = "closed"
        /\ LiveHas(viewers[v].sid)
        /\ LiveGet(viewers[v].sid).page = viewers[v].page
        /\ LiveGet(viewers[v].sid).interval = NoTimer
        /\ PageUsable(viewers[v].page)

\* ---------------------------------------------------------------- C17
\* C17: when mark-submitted has answered for a session, no viewer of that
\* session has its capture timer still set.
C17_NoTimerAfterSubmit ==
    (reply.op = "ms" /\ reply.code = HttpOk)
        => \A v \in DOMAIN viewers : viewers[v].sid = reply.id => ~viewers[v].timer

\* ---------------------------------------------------------------- C18
\* C18: at most one viewer per session id is connected with its capture
\* timer set.
C18_OneStreamingViewer ==
    \A sid \in SessionIds :
        Cardinality({v \in DOMAIN viewers :
                        /\ viewers[v].sid = sid
                        /\ viewers[v].state = "streaming"
                        /\ viewers[v].timer}) <= 1

\* ---------------------------------------------------------------- C19
\* C19: the step in which a capture of viewer v fails sends v the one
\* message 'Could not capture frame'; v's timer was set and stays set, and
\* the viewers, the sessions, the registry, the browsers, the event log and
\* the suspended handlers are as they were.
C19_CaptureFailureKeepsStreaming ==
    [][(reply'.op = "ws_frame" /\ reply'.body # "frame")
          => /\ reply' = WsFrame(reply'.id, "error: Could not capture frame")
             /\ viewers[reply'.id].timer
             /\ viewers'[reply'.id].timer
             /\ UNCHANGED <<viewers, sessions, livePages, browsers, events, inflight>>]_vars

\* A capture has just failed for a streaming viewer whose page is open and
\* whose session's handle is registered with that viewer's interval.
C19_Witness ==
    /\ reply.op = "ws_frame" /\ reply.body = "error: Could not capture frame"
    /\ viewers[reply.id].state = "streaming" /\ viewers[reply.id].timer
    /\ PageUsable(viewers[reply.id].page)
    /\ LiveHas(viewers[reply.id].sid)
    /\ LiveGet(viewers[reply.id].sid).interval = reply.id

\* ---------------------------------------------------------------- C20
\* C20: the step in which the teardown of mark-submitted ends, whatever the
\* page close and the browser close did, removes the registry entry, appends
\* the SUBMITTED event and answers status SUBMITTED.
C20_TeardownEndsSubmitted ==
    [][\A q \in InFlightSet :
          (q.op = "ms" /\ Finishing(q))
              => /\ \A e \in livePages' : e.key # q.sid
                 /\ events' = Append(events, Event(q.sid, "SUBMITTED"))
                 /\ reply' = Respond("ms", q.sid, HttpOk, "SUBMITTED", "")]_vars
\* ---------------------------------------------------------------- C21
\* C21: a viewer whose connection has closed has its timer cleared, and no
\* capture message is ever sent by the timer of a closed connection.
C21_ClosedViewerNeverFires ==
    /\ \A v \in DOMAIN viewers : viewers[v].state = "closed" => ~viewers[v].timer
    /\ reply.op = "ws_frame" => viewers[reply.id].state = "streaming"

\* A viewer has disconnected while a later viewer of the same session is
\* still streaming with its timer set, and the session was submitted.
C21_Witness ==
    \E v, w \in DOMAIN viewers :
        /\ v < w /\ viewers[v].sid = viewers[w].sid
        /\ viewers[v].state = "closed" /\ ~viewers[v].timer
        /\ viewers[w].state = "streaming" /\ viewers[w].timer
        /\ MsEvents(viewers[v].sid) > 0

\* ---------------------------------------------------------------- C22
\* The capture timers that are set for a session.
ActiveTimers(sid) == {v \in DOMAIN viewers : viewers[v].sid = sid /\ viewers[v].timer}

\* C22: for every session id, the timers set for the session are exactly the
\* one the registry entry records: none when there is no entry or the entry
\* records no timer, otherwise that one.
C22_RegistryKnowsTimers ==
    \A sid \in SessionIds :
        ActiveTimers(sid) = IF LiveHas(sid) /\ LiveGet(sid).interval # NoTimer
                            THEN {LiveGet(sid).interval}
                            ELSE {}

\* ---------------------------------------------------------------- C23
\* C23: whenever a timer of a viewer of session X fires, the registry holds
\* a handle for X and its page is the page the capture is made against.
C23_CaptureFromRegisteredPage ==
    [][reply'.op = "ws_frame"
          => /\ LiveHas(viewers[reply'.id].sid)
             /\ LiveGet(viewers[reply'.id].sid).page = viewers[reply'.id].page]_vars

\* ---------------------------------------------------------------- C24
\* The steps of the frame channel that touch the registry: a connection is
\* accepted, or a connection closes.
ViewerAttached == Len(viewers') = Len(viewers) + 1

ViewerDetached ==
    \E v \in DOMAIN viewers : viewers[v].state = "streaming" /\ viewers'[v].state = "closed"

\* C24: a step in which a viewer connects or disconnects leaves every
\* registry entry with the browser and the page it had, and the accepted
\* connection captures from that page.
C24_TimerChangeKeepsHandle ==
    [][(ViewerAttached \/ ViewerDetached)
          => /\ \A e \in livePages : \E f \in livePages' :
                   f.key = e.key /\ f.browser = e.browser /\ f.page = e.page
             /\ ViewerAttached
                   => /\ LiveHas(viewers'[Len(viewers')].sid)
                      /\ LiveGet(viewers'[Len(viewers')].sid).page = viewers'[Len(viewers')].page]_vars

\* A second viewer has connected and the first has disconnected on a session
\* whose handle still names the browser and page the go registered.
C24_Witness ==
    /\ Len(viewers) = 2
    /\ viewers[1].state = "closed" /\ viewers[2].state = "streaming"
    /\ viewers[1].sid = viewers[2].sid
    /\ LiveHas(viewers[1].sid)
    /\ LiveGet(viewers[1].sid).page = viewers[1].page
    /\ LiveGet(viewers[1].sid).browser = viewers[1].page
    /\ LiveGet(viewers[1].sid).interval = NoTimer

\* ---------------------------------------------------------------- C25
LiveKeys == {e.key : e \in livePages}

\* C25: a step of the frame channel (a connection accepted or turned away, a
\* connection closing, a timer firing) never adds a key to the registry.
C25_ViewerNeverCreatesHandle ==
    [][(reply'.op \in {"ws_connect", "ws_frame"} \/ ViewerAttached \/ ViewerDetached)
          => (LiveKeys \subseteq SessionIds /\ LiveKeys' \subseteq LiveKeys)]_vars

\* A viewer that streamed from a session has disconnected, the session was
\* submitted and has no handle.
C25_Witness ==
    \E v \in DOMAIN viewers :
        /\ viewers[v].state = "closed"
        /\ MsEvents(viewers[v].sid) > 0
        /\ ~LiveHas(viewers[v].sid)
        /\ ~PageUsable(viewers[v].page)
\* ---------------------------------------------------------------- C26
\* The ids of a session list, in list order.
IdsOf(list) == [i \in 1..Len(list) |-> list[i].id]

\* C26: every step leaves the ids of the session list as they were, in the
\* same order, except a step in which create answers success, which puts
\* one new id in front of them.
C26_SessionsKeptMostRecentFirst ==
    [][IF reply'.op = "create" /\ reply'.code = HttpOk
       THEN /\ IdsOf(sessions') = <<reply'.id>> \o IdsOf(sessions)
            /\ reply'.id \notin SessionIds
       ELSE IdsOf(sessions') = IdsOf(sessions)]_vars

\* Two sessions, the later one first, the earlier one submitted and still
\* in the list.
C26_Witness ==
    /\ IdsOf(sessions) = <<2, 1>>
    /\ sessions[2].status = "SUBMITTED"
    /\ sessions[2].endedAt # NotEnded
    /\ sessions[1].status = "OPEN"

\* ---------------------------------------------------------------- C27
\* C27: in the step in which a go ends, the browser it launched is closed or
\* is the browser of the registry entry of its session, and every running
\* browser the registry referenced is still referenced.
C27_GoLeavesNoOrphan ==
    [][\A q \in InFlightSet :
          (q.op = "go" /\ Finishing(q))
              => /\ (q.pc = "navigate" /\ browsers'[q.b].open)
                    => \E f \in livePages' : f.key = q.sid /\ f.browser = q.b
                 /\ \A e \in livePages :
                       browsers'[e.browser].open
                           => \E f \in livePages' : f.browser = e.browser]_vars

\* ---------------------------------------------------------------- C28
\* C28: a session for which one go and one mark-submitted have both ended,
\* the mark-submitted having been called before the go ended or after it,
\* and nothing else was requested, has no handle in the registry and no
\* running browser.
C28_GoAndSubmitLeaveNothing ==
    \A sid \in SessionIds :
        (/\ EventCount(sid, "GO_CLICKED") = 1
         /\ EventCount(sid, "SUBMITTED") = 1
         /\ EventCount(sid, "ANALYZE_DONE") = 0
         /\ EventCount(sid, "AUTOFILL_DONE") = 0
         /\ \A q \in InFlightSet : q.sid # sid
         /\ sid \notin served)
            => /\ ~LiveHas(sid)
               /\ \A b \in DOMAIN browsers : browsers[b].sid = sid => ~browsers[b].open

\* ---------------------------------------------------------------- C29
\* C29: a session has endedAt set exactly when its status is SUBMITTED.
C29_EndedIffSubmitted ==
    \A i \in 1..Len(sessions) :
        (sessions[i].endedAt # NotEnded) <=> (sessions[i].status = "SUBMITTED")

\* ---------------------------------------------------------------- C30
\* C30: once a session's endedAt is set, no step changes it.
C30_EndedAtWrittenOnce ==
    [][\A i \in 1..Len(sessions) : \A j \in 1..Len(sessions') :
          (sessions'[j].id = sessions[i].id /\ sessions[i].endedAt # NotEnded)
              => sessions'[j].endedAt = sessions[i].endedAt]_vars
====
